---- MODULE Spec2Model ----
(***************************************************************************)
(* A model of the hierarchical memory store: the Memory tree of            *)
(* src/src/models.py and the MemoryStore of src/src/memory_store.py.       *)
(*                                                                         *)
(* The in-memory tree is a heap `mem` from node ids to Memory objects; a   *)
(* node's children are a sequence of ids.  A node that remove_memory has   *)
(* detached stays in the heap: a caller that resolved it earlier still     *)
(* holds the reference.  The persisted file is the nested dictionary that  *)
(* Memory.to_dict produced at the last save.  Caller threads execute the   *)
(* five operations step by step; threading.Lock is the variable `lock`.    *)
(***************************************************************************)
EXTENDS Integers, Sequences, FiniteSets, TLC

\* ------------------------------------------------------------------ bounds

\* Number of calls a single caller makes on a store that starts empty.
MaxCalls == 3
\* Number of calls a single caller makes on a store that loaded a tree.
MaxLoadedCalls == 2
\* Largest value datetime.now() returns.
MaxClock == 2
\* Number of calls a single caller makes on a store constructed on any file.
MaxLoadCalls == 1

\* ------------------------------------------------------------ input values

Descs == {"a", "b"}
Threads == {1, 2}
SeqThreads == {1}
\* concurrent callers make as many calls in all as there are threads
ConcCalls == Cardinality(Threads)

None == <<>>
Some(x) == <<x>>

\* position arguments: the paths of a tree of depth two, with some that need
\* not resolve
Positions == {<<>>, <<"a">>, <<"b">>, <<"a", "a">>, <<"a", "b">>}

\* (description, content, tags, author) given to add_memory
AddArgs ==
  { [author |-> "user", content |-> None,       description |-> "a",
     tags |-> <<>>],
    [author |-> "user", content |-> Some("c1"), description |-> "b",
     tags |-> <<"t1">>] }

\* (description, content, tags) given to edit_memory; None is "not supplied"
EditArgs ==
  { [content |-> None,       description |-> None,      tags |-> None],
    [content |-> Some("c2"), description |-> None,      tags |-> None],
    [content |-> None,       description |-> None,      tags |-> Some(<<"t2">>)],
    [content |-> None,       description |-> Some("a"), tags |-> None],
    [content |-> Some("c2"), description |-> Some("b"), tags |-> Some(<<>>)] }

\* -------------------------------------------------------------------- state

VARIABLES
  mem,      \* heap: node id -> Memory object (root_memory is mem[RootId])
  file,     \* None when the storage file does not exist, else Some(dict)
  clock,    \* the latest value datetime.now() has returned
  lock,     \* self.lock: None when free, Some(t) when thread t holds it
  pc,       \* per thread: the statement it is at ("idle": in no call)
  call,     \* per thread: the operation and arguments of its current/last call
  cur,      \* per thread: local `memory` / `parent` / `current` (Some(id) or None)
  seg,      \* per thread: loop index (path segment, or child being listed)
  tmp,      \* per thread: access_count as loaded by `self.access_count += 1`
  tnow,     \* per thread: the value of datetime.now() not yet stored
  acc,      \* per thread: the list list_children has built so far
  res,      \* per thread: the value its last call returned
  pre,      \* per thread: mem and file as they were when its call started
  budget,   \* the number of calls the callers may still start
  found     \* the storage file as the constructor found it

vars == <<mem, file, clock, lock, pc, call, cur, seg, tmp, tnow, acc, res, pre,
          budget, found>>

RootId == 0

\* ------------------------------------------------------------- models.py

\* datetime.isoformat / datetime.fromisoformat: the text of an instant
IsoFormat(t) == [iso |-> t]
FromIsoFormat(s) == s.iso

\* (mutant) updated_at given the default of created_at
NewMemoryStamped(d, c, tg, a, created, accessed) ==
  [access_count |-> 0, author |-> a, children |-> <<>>, content |-> c,
   created_at |-> created, description |-> d, last_accessed |-> accessed,
   tags |-> tg, updated_at |-> Some(created)]

\* Memory(description=..., content=..., tags=..., author=...): a new leaf;
\* created_at and last_accessed come from two calls of datetime.now()
NewMemory(d, c, tg, a, created, accessed) ==
  [access_count |-> 0, author |-> a, children |-> <<>>, content |-> c,
   created_at |-> created, description |-> d, last_accessed |-> accessed,
   tags |-> tg, updated_at |-> None]

\* Memory.find_child: the first child of n whose description is d
FindChild(m, n, d) ==
  LET ch == m[n].children
      hits == {i \in 1..Len(ch) : m[ch[i]].description = d}
  IN  IF hits = {} THEN None
      ELSE Some(ch[CHOOSE i \in hits : \A j \in hits : i <= j])

\* Memory.to_dict: the node and its subtree as nested dictionaries
RECURSIVE ToDict(_, _)
ToDict(m, n) ==
  [access_count |-> m[n].access_count,
   author |-> m[n].author,
   children |-> [i \in 1..Len(m[n].children) |-> ToDict(m, m[n].children[i])],
   content |-> m[n].content,
   created_at |-> IsoFormat(m[n].created_at),
   description |-> m[n].description,
   id |-> n,
   last_accessed |-> IsoFormat(m[n].last_accessed),
   tags |-> m[n].tags,
   updated_at |-> IF m[n].updated_at # None
                  THEN Some(IsoFormat(m[n].updated_at[1])) ELSE None]

\* ------------------------------------------------------- memory_store.py

\* _save_without_lock: the file content after a save of heap m
SavedFile(m) == Some(ToDict(m, RootId))

RECURSIVE NavigateFrom(_, _, _)

\* (mutant) line 55 returning the node reached so far
NavigateToLastFound(m, n, p) ==
  IF p = <<>> THEN Some(n)
  ELSE LET child == FindChild(m, n, Head(p))
       IN  IF child = None THEN Some(n)
           ELSE NavigateFrom(m, child[1], Tail(p))

\* (mutant) lines 54-55 going on with the next segment
NavigateSkippingMisses(m, n, p) ==
  IF p = <<>> THEN Some(n)
  ELSE LET child == FindChild(m, n, Head(p))
       IN  IF child = None THEN NavigateFrom(m, n, Tail(p))
           ELSE NavigateFrom(m, child[1], Tail(p))

\* _navigate_to_position, from node n along position p
NavigateFrom(m, n, p) ==
  IF p = <<>> THEN Some(n)
  ELSE LET child == FindChild(m, n, Head(p))
       IN  IF child = None THEN None
           ELSE NavigateFrom(m, child[1], Tail(p))

Navigate(m, p) == NavigateFrom(m, RootId, p)

\* (mutant) _count_all_children without the recursion of line 201
CountDirectChildren(m, n) == Len(m[n].children)

\* _count_all_children: the number of descendants of n
RECURSIVE CountAllChildren(_, _)
SumChildren(m, ch) ==
  LET RECURSIVE Sum(_)
      Sum(i) == IF i = 0 THEN 0 ELSE CountAllChildren(m, ch[i]) + Sum(i - 1)
  IN  Sum(Len(ch))
CountAllChildren(m, n) == Len(m[n].children) + SumChildren(m, m[n].children)

\* datetime.now(): the clock never runs backwards and stops at MaxClock
NowValues == {t \in clock..MaxClock : t <= clock + 1}

\* Memory.from_dict: the dictionaries of a nested dictionary, and the heap of
\* objects built from them
RECURSIVE DictNodes(_)
DictNodes(d) ==
  {d} \cup UNION {DictNodes(d.children[i]) : i \in 1..Len(d.children)}

\* (mutant) from_dict leaving updated_at at its default
FromDictNodeUnstamped(d) ==
  [access_count |-> d.access_count,
   author |-> d.author,
   children |-> [i \in 1..Len(d.children) |-> d.children[i].id],
   content |-> d.content,
   created_at |-> FromIsoFormat(d.created_at),
   description |-> d.description,
   last_accessed |-> FromIsoFormat(d.last_accessed),
   tags |-> d.tags,
   updated_at |-> None]

FromDictNode(d) ==
  [access_count |-> d.access_count,
   author |-> d.author,
   children |-> [i \in 1..Len(d.children) |-> d.children[i].id],
   content |-> d.content,
   created_at |-> FromIsoFormat(d.created_at),
   description |-> d.description,
   last_accessed |-> FromIsoFormat(d.last_accessed),
   tags |-> d.tags,
   updated_at |-> IF d.updated_at # None
                  THEN Some(FromIsoFormat(d.updated_at[1])) ELSE None]

FromDict(d) ==
  [n \in {x.id : x \in DictNodes(d)} |->
     FromDictNode(CHOOSE x \in DictNodes(d) : x.id = n)]

\* _init_root, line 32
RootMemory(created, accessed) ==
  NewMemory("root", Some("Root of all memories"), <<>>, "system",
            created, accessed)

\* a tree that an earlier run of the store left in the file: the root with
\* children a and c, b under a, and another a under b; the first a was read
\* once and b edited once
EarlierHeap ==
  (RootId :> [RootMemory(0, 0) EXCEPT !.children = <<1, 3>>]) @@
  (1 :> [NewMemory("a", None, <<>>, "user", 0, 1) EXCEPT
           !.access_count = 1, !.children = <<2>>]) @@
  (2 :> [NewMemory("b", Some("c1"), <<"t1">>, "user", 1, 1) EXCEPT
           !.updated_at = Some(1), !.children = <<4>>]) @@
  (3 :> NewMemory("c", Some("c1"), <<>>, "user", 1, 1)) @@
  (4 :> NewMemory("a", None, <<"t1">>, "user", 1, 1))

\* what the storage file holds when the store is constructed: nothing (the
\* file does not exist) or the tree an earlier run saved
InitialFiles == {None, SavedFile(EarlierHeap)}

\* files that do not hold a tree: an empty file, a truncated document, and
\* JSON documents that lack fields Memory requires (in the root, in a child)
BadFiles ==
  { Some([text |-> ""]),
    Some([text |-> "{"]),
    Some([description |-> "root"]),
    Some([ToDict(EarlierHeap, RootId) EXCEPT
            !.children = <<[description |-> "a", id |-> 1]>>]) }

\* line 22, json.load: the content is a JSON document
JsonLoads(x) == "text" \notin DOMAIN x

\* Memory.from_dict, line 41: data.pop("children", [])
ChildrenData(d) == IF "children" \in DOMAIN d THEN d.children ELSE <<>>

\* Memory.from_dict raises nothing: the dictionary and those of its children
\* have the fields that lines 36-37 read and that Memory has no default for
RECURSIVE Deserialises(_)
Deserialises(d) ==
  /\ {"author", "created_at", "description", "last_accessed"} \subseteq DOMAIN d
  /\ \A i \in 1..Len(ChildrenData(d)) : Deserialises(ChildrenData(d)[i])

\* lines 19-28: _load takes the tree from the file
Loads(f) == f # None /\ JsonLoads(f[1]) /\ Deserialises(f[1])

\* (mutant) _init_root without line 33
FileLeftAsFound(f, m) == f

\* _init_root, line 33: the file after self._save()
InitRootFile(f, m) == SavedFile(m)

\* line 13 and the callers: the lock is free and no thread is in a call
InitCallers ==
  /\ lock = None
  /\ pc = [t \in Threads |-> "idle"]
  /\ call = [t \in Threads |-> [op |-> "none"]]
  /\ cur = [t \in Threads |-> None]
  /\ seg = [t \in Threads |-> 0]
  /\ tmp = [t \in Threads |-> 0]
  /\ tnow = [t \in Threads |-> 0]
  /\ acc = [t \in Threads |-> <<>>]
  /\ res = [t \in Threads |-> [none |-> TRUE]]
  /\ pre = [t \in Threads |-> [none |-> TRUE]]

\* MemoryStore.__init__: _load reads the tree from the file when it exists and
\* deserialises (lines 19-23), else _init_root builds the root and saves it
\* (lines 24-33); the callers then make fresh or loaded calls, by what the
\* store started from
InitStore(files, fresh, loaded) ==
  /\ \E f \in files :
       /\ found = f
       /\ IF Loads(f)
          THEN /\ mem = FromDict(f[1])
               /\ file = f
               /\ clock = 1
               /\ budget = loaded
          ELSE \E accessed \in {0, 1} :
                 /\ mem = (RootId :> RootMemory(0, accessed))
                 /\ file = InitRootFile(f, mem)
                 /\ clock = accessed
                 /\ budget = fresh
  /\ InitCallers

\* the store constructed, at a time when the clock stands at MaxClock, on the
\* tree an earlier run saved or on no file
InitLate ==
  /\ \E f \in InitialFiles :
       /\ found = f
       /\ IF Loads(f)
          THEN /\ mem = FromDict(f[1])
               /\ file = f
          ELSE /\ mem = (RootId :> RootMemory(MaxClock, MaxClock))
               /\ file = InitRootFile(f, mem)
  /\ clock = MaxClock
  /\ budget = ConcCalls
  /\ InitCallers

Init == InitStore(InitialFiles, ConcCalls, ConcCalls)
InitSeq == InitStore(InitialFiles, MaxCalls, MaxLoadedCalls)
\* a store constructed on any file, good or bad
InitAnyFile == InitStore(InitialFiles \cup BadFiles, MaxLoadCalls, MaxLoadCalls)

\* ---------------------------------------------------------------- helpers

Set(f, t, v) == [f EXCEPT ![t] = v]

\* thread t returns value r from its call; its locals die
Return(t, r) ==
  /\ res' = Set(res, t, r)
  /\ pc' = Set(pc, t, "done")
  /\ cur' = Set(cur, t, None)
  /\ seg' = Set(seg, t, 0)
  /\ tmp' = Set(tmp, t, 0)
  /\ tnow' = Set(tnow, t, 0)
  /\ acc' = Set(acc, t, <<>>)

\* thread t goes on to statement next with local `memory` set to c
Goto(t, next, c) ==
  /\ pc' = Set(pc, t, next)
  /\ cur' = Set(cur, t, c)
  /\ UNCHANGED <<seg, tmp, tnow, acc, res>>

Error(msg) == [error |-> msg]

NoCall == [op |-> "none"]
NoResult == [none |-> TRUE]
NoSnapshot == [none |-> TRUE]

\* an idle caller starts call c at statement first
Begin(t, c, first) ==
  /\ budget > 0
  /\ budget' = budget - 1
  /\ call' = Set(call, t, c)
  /\ pc' = Set(pc, t, first)
  /\ pre' = Set(pre, t, [file |-> file, mem |-> mem])
  /\ cur' = Set(cur, t, Some(RootId))
  /\ seg' = Set(seg, t, 1)
  /\ UNCHANGED <<mem, file, clock, lock, tmp, tnow, acc, res, found>>

\* the caller has taken the returned value and is ready for its next call
Finish(t) ==
  /\ pc[t] = "done"
  /\ pc' = Set(pc, t, "idle")
  /\ call' = Set(call, t, NoCall)
  /\ res' = Set(res, t, NoResult)
  /\ pre' = Set(pre, t, NoSnapshot)
  /\ UNCHANGED <<mem, file, clock, lock, cur, seg, tmp, tnow, acc, budget, found>>

\* (mutant) a lock that does not make the second taker wait
AcquireHeldLock(t, at, next) ==
  /\ pc[t] = at
  /\ lock' = Some(t)
  /\ pc' = Set(pc, t, next)
  /\ UNCHANGED <<mem, file, clock, call, cur, seg, tmp, tnow, acc, res, pre,
                 budget, found>>

\* `with self.lock:` blocks until the lock is free
Acquire(t, at, next) ==
  /\ pc[t] = at
  /\ lock = None
  /\ lock' = Some(t)
  /\ pc' = Set(pc, t, next)
  /\ UNCHANGED <<mem, file, clock, call, cur, seg, tmp, tnow, acc, res, pre, budget, found>>

\* ------------------------------------------------------------- add_memory

\* (mutant) line 70 without the check
NoDuplicateCheck(m, parent, d) == FALSE

\* line 70: a child of the parent already has the description
DuplicateChild(m, parent, d) == FindChild(m, parent, d) # None

\* (mutant) line 75 inserting at the front
InsertFirst(ch, n) == <<n>> \o ch

\* line 75: parent.children.append(new_memory)
AppendChild(ch, n) == Append(ch, n)

\* (mutant) line 75 assigning a new list in place of the append
WithOnlyNewChild(m, parent, n, node) ==
  (n :> node) @@ [m EXCEPT ![parent].children = <<n>>]

\* lines 73-75 on heap m: the new object n is created and appended to parent
WithNewChild(m, parent, n, node) ==
  (n :> node) @@
  [m EXCEPT ![parent].children = AppendChild(m[parent].children, n)]

\* the id uuid4 hands out next
FreshId(m) == Cardinality(DOMAIN m)

CallAdd(t) ==
  \E p \in Positions, a \in AddArgs :
    /\ pc[t] = "idle"
    /\ Begin(t, [author |-> a.author, content |-> a.content,
              description |-> a.description, op |-> "add", position |-> p,
              tags |-> a.tags],
             "add_lock")

\* line 64
AddLock(t) == Acquire(t, "add_lock", "add_body")

\* lines 65-75
AddBody(t) ==
  /\ pc[t] = "add_body"
  /\ LET c == call[t]
         parent == Navigate(mem, c.position)
     IN  IF parent = None
         THEN /\ Return(t, Error("Position not found"))
              /\ lock' = None
              /\ UNCHANGED <<mem, file, clock>>
         ELSE IF DuplicateChild(mem, parent[1], c.description)
         THEN /\ Return(t, Error("already exists at this position"))
              /\ lock' = None
              /\ UNCHANGED <<mem, file, clock>>
         ELSE \E created \in NowValues :
                \E accessed \in {x \in created..MaxClock : x <= created + 1} :
                  /\ mem' = WithNewChild(mem, parent[1], FreshId(mem),
                              NewMemory(c.description, c.content, c.tags,
                                        c.author, created, accessed))
                  /\ clock' = accessed
                  /\ Goto(t, "add_save", Some(FreshId(mem)))
                  /\ UNCHANGED <<file, lock>>
  /\ UNCHANGED <<call, pre, budget, found>>

\* lines 76-83
AddSave(t) ==
  /\ pc[t] = "add_save"
  /\ file' = SavedFile(mem)
  /\ lock' = None
  /\ LET n == cur[t][1]
     IN  Return(t, [created_at |-> IsoFormat(mem[n].created_at),
                    description |-> mem[n].description,
                    id |-> n,
                    position |-> call[t].position \o <<call[t].description>>])
  /\ UNCHANGED <<mem, clock, call, pre, budget, found>>

\* ------------------------------------------------------------ read_memory

\* (mutant) line 55 storing the loaded counter back
NoIncrement(count) == count

\* Memory.update_access, line 55: the new counter from the loaded one
IncrementAccess(count) == count + 1

\* lines 95-106: the dictionary read_memory returns for node n
ReadResult(m, n) ==
  [access_count |-> m[n].access_count,
   author |-> m[n].author,
   content |-> m[n].content,
   created_at |-> IsoFormat(m[n].created_at),
   description |-> m[n].description,
   has_children |-> Len(m[n].children) > 0,
   id |-> n,
   last_accessed |-> IsoFormat(m[n].last_accessed),
   tags |-> m[n].tags,
   updated_at |-> IF m[n].updated_at # None
                  THEN Some(IsoFormat(m[n].updated_at[1])) ELSE None]

CallRead(t) ==
  \E p \in Positions :
    /\ pc[t] = "idle"
    /\ Begin(t, [op |-> "read", position |-> p], "read_nav")

\* one turn of the loop of _navigate_to_position, run without the lock
NavStep(t, at, next) ==
  /\ pc[t] = at
  /\ LET p == call[t].position
     IN  IF seg[t] > Len(p)
         THEN /\ pc' = Set(pc, t, next)
              /\ seg' = Set(seg, t, 1)
              /\ UNCHANGED <<cur, tmp, tnow, acc, res>>
         ELSE LET child == FindChild(mem, cur[t][1], p[seg[t]])
              IN  IF child = None
                  THEN Return(t, Error("Memory not found"))
                  ELSE /\ cur' = Set(cur, t, child)
                       /\ seg' = Set(seg, t, seg[t] + 1)
                       /\ UNCHANGED <<pc, tmp, tnow, acc, res>>
  /\ UNCHANGED <<mem, file, clock, lock, call, pre, budget, found>>

\* lines 87-89
ReadNav(t) == NavStep(t, "read_nav", "read_load")

\* update_access, line 55: load self.access_count
ReadLoad(t) ==
  /\ pc[t] = "read_load"
  /\ tmp' = Set(tmp, t, mem[cur[t][1]].access_count)
  /\ pc' = Set(pc, t, "read_store")
  /\ UNCHANGED <<mem, file, clock, lock, call, cur, seg, tnow, acc, res, pre, budget, found>>

\* update_access, line 55: store the sum; line 56: call datetime.now()
ReadStore(t) ==
  /\ pc[t] = "read_store"
  /\ mem' = [mem EXCEPT ![cur[t][1]].access_count = IncrementAccess(tmp[t])]
  /\ \E now \in NowValues :
       /\ tnow' = Set(tnow, t, now)
       /\ clock' = now
  /\ pc' = Set(pc, t, "read_stamp")
  /\ UNCHANGED <<file, lock, call, cur, seg, tmp, acc, res, pre, budget, found>>

\* update_access, line 56: store last_accessed
ReadStamp(t) ==
  /\ pc[t] = "read_stamp"
  /\ mem' = [mem EXCEPT ![cur[t][1]].last_accessed = tnow[t]]
  /\ pc' = Set(pc, t, "read_lock")
  /\ UNCHANGED <<file, clock, lock, call, cur, seg, tmp, tnow, acc, res, pre, budget, found>>

\* _save, line 37
ReadLock(t) == Acquire(t, "read_lock", "read_save")

\* (mutant) read_memory without line 93
ReadWithoutSave(t) ==
  /\ pc[t] = "read_save"
  /\ lock' = None
  /\ pc' = Set(pc, t, "read_ret")
  /\ UNCHANGED <<mem, file, clock, call, cur, seg, tmp, tnow, acc, res, pre,
                 budget, found>>

\* _save, line 38, and the release of the lock
ReadSave(t) ==
  /\ pc[t] = "read_save"
  /\ file' = SavedFile(mem)
  /\ lock' = None
  /\ pc' = Set(pc, t, "read_ret")
  /\ UNCHANGED <<mem, clock, call, cur, seg, tmp, tnow, acc, res, pre, budget, found>>

\* lines 95-106
ReadReturn(t) ==
  /\ pc[t] = "read_ret"
  /\ Return(t, ReadResult(mem, cur[t][1]))
  /\ UNCHANGED <<mem, file, clock, lock, call, pre, budget, found>>

\* ---------------------------------------------------------- list_children

\* (mutant) line 118 counting all descendants
ChildEntryCountingAll(m, n) ==
  [children_count |-> CountAllChildren(m, n),
   content |-> m[n].content,
   description |-> m[n].description,
   tags |-> m[n].tags]

\* lines 115-120: the entry of child n
ChildEntry(m, n) ==
  [children_count |-> Len(m[n].children),
   content |-> m[n].content,
   description |-> m[n].description,
   tags |-> m[n].tags]

CallList(t) ==
  \E p \in Positions :
    /\ pc[t] = "idle"
    /\ Begin(t, [op |-> "list", position |-> p], "list_nav")

\* lines 110-112
ListNav(t) == NavStep(t, "list_nav", "list_iter")

\* (mutant) list_children calling memory.update_access() before it returns
ListIterCountingAccess(t) ==
  /\ pc[t] = "list_iter"
  /\ LET ch == mem[cur[t][1]].children
     IN  IF seg[t] <= Len(ch)
         THEN /\ acc' = Set(acc, t, Append(acc[t], ChildEntry(mem, ch[seg[t]])))
              /\ seg' = Set(seg, t, seg[t] + 1)
              /\ UNCHANGED <<mem, pc, cur, tmp, tnow, res>>
         ELSE /\ Return(t, [children |-> acc[t], position |-> call[t].position])
              /\ mem' = [mem EXCEPT ![cur[t][1]].access_count = @ + 1]
  /\ UNCHANGED <<file, clock, lock, call, pre, budget, found>>

\* lines 114-124: one turn of the comprehension over memory.children, or its end
ListIter(t) ==
  /\ pc[t] = "list_iter"
  /\ LET ch == mem[cur[t][1]].children
     IN  IF seg[t] <= Len(ch)
         THEN /\ acc' = Set(acc, t, Append(acc[t], ChildEntry(mem, ch[seg[t]])))
              /\ seg' = Set(seg, t, seg[t] + 1)
              /\ UNCHANGED <<pc, cur, tmp, tnow, res>>
         ELSE Return(t, [children |-> acc[t], position |-> call[t].position])
  /\ UNCHANGED <<mem, file, clock, lock, call, pre, budget, found>>

\* ------------------------------------------------------------ edit_memory

\* (mutant) line 140 never recognising the root
NeverRoot(n) == FALSE

\* line 140: memory == self.root_memory
IsRoot(n) == n = RootId

\* (mutant) lines 150-152 without `sibling != memory`
ConflictWithAnyChild(m, parent, n, d) ==
  \E i \in 1..Len(m[parent].children) :
    m[m[parent].children[i]].description = d

\* lines 150-152: another child of parent already has description d
SiblingConflict(m, parent, n, d) ==
  \E i \in 1..Len(m[parent].children) :
    /\ m[parent].children[i] # n
    /\ m[m[parent].children[i]].description = d

\* (mutant) lines 154 and 160 without the assignment
EditedNothing(old, arg) == old

\* lines 144, 154 and 159-160: description or tags after the edit, given the
\* argument (None: not supplied)
Edited(old, arg) == IF arg # None THEN arg[1] ELSE old

\* (mutant) lines 156-157 without `if content is not None`
AssignedContent(old, arg) == arg

\* lines 156-157: content after the edit; a content of None is "not supplied"
EditedContent(old, arg) == IF arg # None THEN arg ELSE old

\* (mutant) line 162 stamping one fixed instant
StampedEpoch(old, now) == Some(0)

\* line 162: memory.updated_at = datetime.now()
Stamped(old, now) == Some(now)

CallEdit(t) ==
  \E p \in Positions, a \in EditArgs :
    /\ pc[t] = "idle"
    /\ Begin(t, [content |-> a.content, description |-> a.description,
              op |-> "edit", position |-> p, tags |-> a.tags], "edit_lock")

\* line 134
EditLock(t) == Acquire(t, "edit_lock", "edit_body")

\* lines 135-154
EditBody(t) ==
  /\ pc[t] = "edit_body"
  /\ LET c == call[t]
         memory == Navigate(mem, c.position)
         parent_position == SubSeq(c.position, 1, Len(c.position) - 1)
         parent == IF parent_position # <<>> THEN Navigate(mem, parent_position)
                   ELSE Some(RootId)
     IN  IF memory = None
         THEN /\ Return(t, Error("Memory not found"))
              /\ lock' = None
              /\ UNCHANGED mem
         ELSE IF IsRoot(memory[1])
         THEN /\ Return(t, Error("Cannot edit root memory"))
              /\ lock' = None
              /\ UNCHANGED mem
         ELSE IF /\ c.description # None
                 /\ parent # None
                 /\ SiblingConflict(mem, parent[1], memory[1], c.description[1])
         THEN /\ Return(t, Error("already exists at this level"))
              /\ lock' = None
              /\ UNCHANGED mem
         ELSE /\ mem' = [mem EXCEPT ![memory[1]].description =
                                      Edited(@, c.description)]
              /\ Goto(t, "edit_fields", memory)
              /\ UNCHANGED lock
  /\ UNCHANGED <<file, clock, call, pre, budget, found>>

\* lines 156-160
EditFields(t) ==
  /\ pc[t] = "edit_fields"
  /\ mem' = [mem EXCEPT ![cur[t][1]].content = EditedContent(@, call[t].content),
                        ![cur[t][1]].tags = Edited(@, call[t].tags)]
  /\ pc' = Set(pc, t, "edit_save")
  /\ UNCHANGED <<file, clock, lock, call, cur, seg, tmp, tnow, acc, res, pre, budget, found>>

\* lines 162-169
EditSave(t) ==
  /\ pc[t] = "edit_save"
  /\ \E now \in NowValues :
       LET n == cur[t][1]
           m2 == [mem EXCEPT ![n].updated_at = Stamped(@, now)]
       IN  /\ mem' = m2
           /\ clock' = now
           /\ file' = SavedFile(m2)
           /\ Return(t, [description |-> m2[n].description,
                         id |-> n,
                         updated_at |-> IsoFormat(m2[n].updated_at[1])])
  /\ lock' = None
  /\ UNCHANGED <<call, pre, budget, found>>

\* ---------------------------------------------------------- remove_memory

\* (mutant) line 188 without the pop
PopNothing(ch, i) == ch

\* line 188: parent.children.pop(i)
PopChild(ch, i) == SubSeq(ch, 1, i - 1) \o SubSeq(ch, i + 1, Len(ch))

CallRemove(t) ==
  \E p \in Positions :
    /\ pc[t] = "idle"
    /\ Begin(t, [op |-> "remove", position |-> p], "remove_lock")

\* line 173
RemoveLock(t) == Acquire(t, "remove_lock", "remove_body")

\* lines 174-188
RemoveBody(t) ==
  /\ pc[t] = "remove_body"
  /\ LET p == call[t].position
         parent_position == SubSeq(p, 1, Len(p) - 1)
         parent == IF parent_position # <<>> THEN Navigate(mem, parent_position)
                   ELSE Some(RootId)
     IN  IF p = <<>>
         THEN /\ Return(t, Error("Cannot remove root memory"))
              /\ lock' = None
              /\ UNCHANGED mem
         ELSE IF parent = None
         THEN /\ Return(t, Error("Parent position not found"))
              /\ lock' = None
              /\ UNCHANGED mem
         ELSE LET ch == mem[parent[1]].children
                  hits == {i \in 1..Len(ch) : mem[ch[i]].description = p[Len(p)]}
              IN  IF hits = {}
                  THEN /\ Return(t, Error("not found at position"))
                       /\ lock' = None
                       /\ UNCHANGED mem
                  ELSE LET i == CHOOSE i \in hits : \A j \in hits : i <= j
                       IN  /\ mem' = [mem EXCEPT ![parent[1]].children =
                                                   PopChild(ch, i)]
                           /\ Goto(t, "remove_save", Some(ch[i]))
                           /\ UNCHANGED lock
  /\ UNCHANGED <<file, clock, call, pre, budget, found>>

\* (mutant) lines 189-193 returning before the `with` block is left
RemoveSaveKeepingLock(t) ==
  /\ pc[t] = "remove_save"
  /\ file' = SavedFile(mem)
  /\ LET removed == cur[t][1]
     IN  Return(t, [children_removed |-> CountAllChildren(mem, removed),
                    removed |-> mem[removed].description])
  /\ UNCHANGED <<mem, clock, lock, call, pre, budget, found>>

\* lines 189-193
RemoveSave(t) ==
  /\ pc[t] = "remove_save"
  /\ file' = SavedFile(mem)
  /\ lock' = None
  /\ LET removed == cur[t][1]
     IN  Return(t, [children_removed |-> CountAllChildren(mem, removed),
                    removed |-> mem[removed].description])
  /\ UNCHANGED <<mem, clock, call, pre, budget, found>>

\* -------------------------------------------------------------- the system

Step(t) ==
  \/ CallAdd(t) \/ AddLock(t) \/ AddBody(t) \/ AddSave(t)
  \/ CallRead(t) \/ ReadNav(t) \/ ReadLoad(t) \/ ReadStore(t) \/ ReadStamp(t)
  \/ ReadLock(t) \/ ReadSave(t) \/ ReadReturn(t)
  \/ CallList(t) \/ ListNav(t) \/ ListIter(t)
  \/ CallEdit(t) \/ EditLock(t) \/ EditBody(t) \/ EditFields(t) \/ EditSave(t)
  \/ CallRemove(t) \/ RemoveLock(t) \/ RemoveBody(t) \/ RemoveSave(t)
  \/ Finish(t)

\* callers on any number of threads
Next == \E t \in Threads : Step(t)
Spec == Init /\ [][Next]_vars

\* one caller: every call returns before the next one starts
NextSeq == \E t \in SeqThreads : Step(t)
SpecSeq == InitSeq /\ [][NextSeq]_vars

\* one caller of a store constructed on any file
SpecLoad == InitAnyFile /\ [][NextSeq]_vars

\* a thread that is inside a call takes its next step when it can: the
\* scheduler runs every thread, and a call waits only for the lock
Running(t) == pc[t] \notin {"idle", "done"} /\ Step(t)
SpecFair == InitLate /\ [][Next]_vars /\ \A t \in Threads : WF_vars(Running(t))

\* ------------------------------------------------------- terms of the claims

IsError(r) == "error" \in DOMAIN r

\* thread t has returned from a call of operation op that it made alone
Returned(t, op) == pc[t] = "done" /\ call[t].op = op

\* how many children of n have description d
KeyCount(m, n, d) ==
  Cardinality({i \in 1..Len(m[n].children) : m[m[n].children[i]].description = d})

\* the nodes that position p leads to from node n, along any matching children
RECURSIVE Targets(_, _, _)
Targets(m, n, p) ==
  IF p = <<>> THEN {n}
  ELSE UNION {Targets(m, m[n].children[i], Tail(p)) :
                i \in {j \in 1..Len(m[n].children) :
                         m[m[n].children[j]].description = Head(p)}}

Resolves(m, p) == Targets(m, RootId, p) # {}
Target(m, p) == CHOOSE n \in Targets(m, RootId, p) : TRUE

\* the nodes below n
RECURSIVE Descendants(_, _)
Descendants(m, n) ==
  UNION {{m[n].children[i]} \cup Descendants(m, m[n].children[i]) :
           i \in 1..Len(m[n].children)}

\* the nodes of the tree
Attached(m) == {RootId} \cup Descendants(m, RootId)

\* ------------------------------------------------------------------ claims

\* C1: in every state reachable by any interleaving of the five operations, no
\* two children of the same parent have the same description.
C1_SiblingKeysUnique ==
  \A n \in DOMAIN mem : \A i, j \in 1..Len(mem[n].children) :
    i # j => mem[mem[n].children[i]].description # mem[mem[n].children[j]].description

\* C1 witness: an add was refused as a duplicate next to a parent with two
\* children, while another caller was inside a call
C1_Witness ==
  /\ \E n \in DOMAIN mem : Len(mem[n].children) >= 2
  /\ \E t \in Threads :
       /\ Returned(t, "add")
       /\ IsError(res[t])
       /\ res[t].error = "already exists at this position"
  /\ \E t \in Threads : pc[t] \notin {"idle", "done"}

\* C2: when the parent path resolves and no child of the parent has the
\* description, add_memory returns position = parent path + [description] and
\* the tree is the tree before the call with exactly one new leaf (the given
\* description, content, tags and author, access_count 0, no children, no
\* updated_at) appended as the last child of the parent, nothing else changed;
\* the parent then has exactly one child of that description.
C2_AddAppendsLeaf ==
  \A t \in SeqThreads :
    (/\ Returned(t, "add")
     /\ Resolves(pre[t].mem, call[t].position)
     /\ KeyCount(pre[t].mem, Target(pre[t].mem, call[t].position),
                 call[t].description) = 0)
    => LET c == call[t]
           old == pre[t].mem
           parent == Target(old, c.position)
       IN  /\ ~IsError(res[t])
           /\ res[t].position = c.position \o <<c.description>>
           /\ res[t].description = c.description
           /\ res[t].id \notin DOMAIN old
           /\ DOMAIN mem = DOMAIN old \cup {res[t].id}
           /\ \A n \in DOMAIN old \ {parent} : mem[n] = old[n]
           /\ mem[parent] =
                [old[parent] EXCEPT !.children = Append(@, res[t].id)]
           /\ mem[res[t].id].description = c.description
           /\ mem[res[t].id].content = c.content
           /\ mem[res[t].id].tags = c.tags
           /\ mem[res[t].id].author = c.author
           /\ mem[res[t].id].access_count = 0
           /\ mem[res[t].id].children = <<>>
           /\ mem[res[t].id].updated_at = None
           /\ res[t].created_at = IsoFormat(mem[res[t].id].created_at)
           /\ KeyCount(mem, parent, c.description) = 1

\* C2 witness: an add has succeeded under a parent other than the root that
\* already had a child
C2_Witness ==
  \E t \in SeqThreads :
    /\ Returned(t, "add")
    /\ ~IsError(res[t])
    /\ call[t].position # <<>>
    /\ Len(mem[Target(pre[t].mem, call[t].position)].children) >= 2

\* C3: add_memory with a description that a child of the resolved parent
\* already has returns an 'already exists' error, and the tree and the file
\* are as they were before the call (the parent still has one such child).
C3_AddDuplicateRefused ==
  \A t \in SeqThreads :
    (/\ Returned(t, "add")
     /\ Resolves(pre[t].mem, call[t].position)
     /\ KeyCount(pre[t].mem, Target(pre[t].mem, call[t].position),
                 call[t].description) > 0)
    => /\ IsError(res[t])
       /\ res[t].error = "already exists at this position"
       /\ mem = pre[t].mem
       /\ file = pre[t].file
       /\ KeyCount(mem, Target(mem, call[t].position), call[t].description) = 1

\* C3 witness: a duplicate add under a node other than the root has returned
C3_Witness ==
  \E t \in SeqThreads :
    /\ Returned(t, "add")
    /\ call[t].position # <<>>
    /\ Resolves(pre[t].mem, call[t].position)
    /\ KeyCount(pre[t].mem, Target(pre[t].mem, call[t].position),
                call[t].description) > 0

\* the position of the parent of the node at position p
ParentPosition(p) == SubSeq(p, 1, Len(p) - 1)

\* the call of thread t names a path that did not resolve when the call started
Unresolved(t) ==
  /\ call[t].op \in {"add", "read", "list", "edit", "remove"}
  /\ ~(call[t].op = "remove" /\ call[t].position = <<>>)
  /\ ~Resolves(pre[t].mem, call[t].position)

\* a child of the parent of the node at p, other than that node, has description d
OtherSiblingHas(m, p, d) ==
  LET parent == Target(m, ParentPosition(p))
  IN  \E i \in 1..Len(m[parent].children) :
        /\ m[parent].children[i] # Target(m, p)
        /\ m[m[parent].children[i]].description = d

\* the call of thread t is one the store refuses
Refused(t) ==
  LET c == call[t]
      old == pre[t].mem
  IN  \/ Unresolved(t)
      \/ /\ c.op = "add"
         /\ Resolves(old, c.position)
         /\ KeyCount(old, Target(old, c.position), c.description) > 0
      \/ c.op \in {"edit", "remove"} /\ c.position = <<>>
      \/ /\ c.op = "edit"
         /\ c.position # <<>>
         /\ Resolves(old, c.position)
         /\ c.description # None
         /\ OtherSiblingHas(old, c.position, c.description[1])

\* C4: when a path segment of the position given to add_memory, read_memory,
\* list_children, edit_memory or remove_memory does not resolve, the call
\* returns a result with an 'error' field and leaves the tree and the file
\* unchanged; a result carries an 'error' field only when the call was refused.
C4_UnresolvedPathIsError ==
  \A t \in SeqThreads :
    pc[t] = "done" =>
      /\ Unresolved(t) =>
           /\ IsError(res[t])
           /\ mem = pre[t].mem
           /\ file = pre[t].file
      /\ IsError(res[t]) <=> Refused(t)

\* C4 witness: a remove whose parent resolves and whose last segment does not
\* has returned on a tree with nodes below the root
C4_Witness ==
  \E t \in SeqThreads :
    /\ Returned(t, "remove")
    /\ Len(call[t].position) = 2
    /\ Resolves(pre[t].mem, ParentPosition(call[t].position))
    /\ Unresolved(t)

\* C5: a successful read_memory increases the access_count of the resolved
\* node by exactly one and returns the new value, leaves its last_accessed no
\* earlier than before, returns the node's own id and attributes, and changes
\* nothing but these two fields of that node.
C5_ReadCountsOnce ==
  \A t \in SeqThreads :
    (Returned(t, "read") /\ Resolves(pre[t].mem, call[t].position)) =>
      LET old == pre[t].mem
          n == Target(old, call[t].position)
      IN  /\ ~IsError(res[t])
          /\ res[t].access_count = old[n].access_count + 1
          /\ mem[n].access_count = old[n].access_count + 1
          /\ mem[n].last_accessed >= old[n].last_accessed
          /\ res[t].last_accessed = IsoFormat(mem[n].last_accessed)
          /\ mem = [old EXCEPT ![n].access_count = @ + 1,
                               ![n].last_accessed = mem[n].last_accessed]
          /\ res[t].id = n
          /\ res[t].description = old[n].description
          /\ res[t].content = old[n].content
          /\ res[t].tags = old[n].tags
          /\ res[t].author = old[n].author
          /\ res[t].created_at = IsoFormat(old[n].created_at)
          /\ res[t].has_children = (old[n].children # <<>>)

\* C5 witness: the second read of a node below the root has returned, at a
\* later time than the first
C5_Witness ==
  \E t \in SeqThreads :
    /\ Returned(t, "read")
    /\ ~IsError(res[t])
    /\ call[t].position # <<>>
    /\ res[t].access_count = 2
    /\ mem[res[t].id].last_accessed > pre[t].mem[res[t].id].last_accessed

\* C6: remove_memory of an existing node other than the root returns its
\* description and the number of all its descendants, takes it out of its
\* parent's children, keeps the other children in their order and the removed
\* subtree whole, and changes nothing else; the parent then has no child of
\* that description and the path does not resolve.
C6_RemoveDetachesSubtree ==
  \A t \in SeqThreads :
    (/\ Returned(t, "remove")
     /\ call[t].position # <<>>
     /\ Resolves(pre[t].mem, call[t].position)) =>
      LET old == pre[t].mem
          p == call[t].position
          n == Target(old, p)
          parent == Target(old, ParentPosition(p))
      IN  /\ ~IsError(res[t])
          /\ res[t].removed = old[n].description
          /\ res[t].children_removed = Cardinality(Descendants(old, n))
          /\ mem = [old EXCEPT ![parent].children =
                                  SelectSeq(@, LAMBDA x : x # n)]
          /\ KeyCount(mem, parent, p[Len(p)]) = 0
          /\ ~Resolves(mem, p)
          /\ ({n} \cup Descendants(old, n)) \cap Attached(mem) = {}
          /\ file = SavedFile(mem)

\* C6 witness: the first of three children has been removed with a child and
\* a grandchild below it
C6_Witness ==
  \E t \in SeqThreads :
    /\ Returned(t, "remove")
    /\ ~IsError(res[t])
    /\ res[t].children_removed = 2
    /\ Len(mem[Target(mem, ParentPosition(call[t].position))].children) = 2
    /\ pre[t].mem[RootId].children[1] \notin Attached(mem)

\* C7: edit_memory([]) and remove_memory([]) return an error and change
\* neither the tree nor the file; in every state the root exists with
\* description 'root', content 'Root of all memories', no tags and author
\* 'system', and is a child of no node.
C7_RootProtected ==
  /\ \A t \in SeqThreads :
       /\ (Returned(t, "edit") /\ call[t].position = <<>>) =>
            /\ IsError(res[t])
            /\ res[t].error = "Cannot edit root memory"
            /\ mem = pre[t].mem
            /\ file = pre[t].file
       /\ (Returned(t, "remove") /\ call[t].position = <<>>) =>
            /\ IsError(res[t])
            /\ res[t].error = "Cannot remove root memory"
            /\ mem = pre[t].mem
            /\ file = pre[t].file
  /\ RootId \in DOMAIN mem
  /\ mem[RootId].description = "root"
  /\ mem[RootId].content = Some("Root of all memories")
  /\ mem[RootId].tags = <<>>
  /\ mem[RootId].author = "system"
  /\ \A n \in DOMAIN mem : \A i \in 1..Len(mem[n].children) :
       mem[n].children[i] # RootId

\* C7 witness: an edit of the root that supplied description, content and
\* tags has returned on a tree with nodes below the root
C7_Witness ==
  \E t \in SeqThreads :
    /\ Returned(t, "edit")
    /\ call[t].position = <<>>
    /\ call[t].description # None
    /\ call[t].content # None
    /\ call[t].tags # None
    /\ mem[RootId].children # <<>>

\* C8: edit_memory with a new description that another sibling has returns an
\* 'already exists at this level' error and changes neither the tree nor the
\* file, whatever else it supplied; with the node's own current description
\* it succeeds.
C8_RenameCollisionRefused ==
  \A t \in SeqThreads :
    (/\ Returned(t, "edit")
     /\ call[t].position # <<>>
     /\ Resolves(pre[t].mem, call[t].position)
     /\ call[t].description # None) =>
      LET old == pre[t].mem
          c == call[t]
      IN  /\ OtherSiblingHas(old, c.position, c.description[1]) =>
                /\ IsError(res[t])
                /\ res[t].error = "already exists at this level"
                /\ mem = old
                /\ file = pre[t].file
          /\ c.description[1] = old[Target(old, c.position)].description =>
                /\ ~IsError(res[t])
                /\ res[t].description = c.description[1]

\* C8 witness: a rename to a sibling's description that also supplied content
\* and tags has been refused
C8_Witness ==
  \E t \in SeqThreads :
    /\ Returned(t, "edit")
    /\ IsError(res[t])
    /\ res[t].error = "already exists at this level"
    /\ call[t].content # None
    /\ call[t].tags # None

\* the edit of thread t went through
EditDone(t) ==
  /\ Returned(t, "edit")
  /\ call[t].position # <<>>
  /\ Resolves(pre[t].mem, call[t].position)
  /\ ~IsError(res[t])

\* id, author and created_at of every object stay as they are in a step
IdentityKept ==
  \A n \in DOMAIN mem :
    /\ n \in DOMAIN mem'
    /\ mem'[n].author = mem[n].author
    /\ mem'[n].created_at = mem[n].created_at

\* C9: a successful edit_memory changes, on the target node, only those of
\* description, content and tags that were supplied, and updated_at; the
\* node's other attributes and every other node are as before.  No step of
\* any operation changes the id, author or created_at of a node.
C9_EditFrame ==
  /\ [](\A t \in SeqThreads :
          EditDone(t) =>
            LET old == pre[t].mem
                c == call[t]
                n == Target(old, c.position)
            IN  mem = [old EXCEPT
                  ![n].description =
                     IF c.description # None THEN c.description[1] ELSE @,
                  ![n].content = IF c.content # None THEN c.content ELSE @,
                  ![n].tags = IF c.tags # None THEN c.tags[1] ELSE @,
                  ![n].updated_at = mem[n].updated_at])
  /\ [][IdentityKept]_vars

\* C9 witness: an edit that supplied only tags has succeeded on a node that
\* has content, a child and a non-zero access count
C9_Witness ==
  \E t \in SeqThreads :
    /\ EditDone(t)
    /\ call[t].description = None
    /\ call[t].content = None
    /\ call[t].tags # None
    /\ LET n == Target(pre[t].mem, call[t].position)
       IN  /\ mem[n].content # None
           /\ mem[n].children # <<>>
           /\ mem[n].tags # pre[t].mem[n].tags

\* C10: edit_memory on an existing node other than the root succeeds when no
\* field is supplied, and every successful edit leaves updated_at present,
\* not earlier than it was before, and returns it.
C10_EditStampsUpdatedAt ==
  \A t \in SeqThreads :
    /\ (/\ Returned(t, "edit")
        /\ call[t].position # <<>>
        /\ Resolves(pre[t].mem, call[t].position)
        /\ call[t].description = None) => ~IsError(res[t])
    /\ EditDone(t) =>
         LET old == pre[t].mem
             n == Target(old, call[t].position)
         IN  /\ mem[n].updated_at # None
             /\ old[n].updated_at # None =>
                  mem[n].updated_at[1] >= old[n].updated_at[1]
             /\ res[t].updated_at = IsoFormat(mem[n].updated_at[1])
             /\ file = SavedFile(mem)

\* C10 witness: an edit that supplied no field has moved updated_at forward on
\* a node edited before
C10_Witness ==
  \E t \in SeqThreads :
    /\ EditDone(t)
    /\ call[t].description = None
    /\ call[t].content = None
    /\ call[t].tags = None
    /\ LET n == Target(pre[t].mem, call[t].position)
       IN  /\ pre[t].mem[n].updated_at # None
           /\ mem[n].updated_at[1] > pre[t].mem[n].updated_at[1]

\* no thread is inside a call
Quiescent == \A t \in Threads : pc[t] \in {"idle", "done"}

\* the tree as a caller sees it: the objects reachable from the root
Tree(m) == [n \in Attached(m) |-> m[n]]

\* thread t has returned from a call of operation op without an error
Succeeded(t, op) == Returned(t, op) /\ ~IsError(res[t])

\* C11: whenever no operation is in progress, also after operations that ran
\* concurrently, the file holds the serialization of the current tree, and a
\* store constructed on it loads the same nodes at the same paths with the
\* same attributes and child order.
C11_FileHoldsTree ==
  Quiescent =>
    /\ file = Some(ToDict(mem, RootId))
    /\ Loads(file)
    /\ FromDict(file[1]) = Tree(mem)

\* C11 witness: a read and an edit that started from the same tree have both
\* succeeded
C11_Witness ==
  /\ Quiescent
  /\ \E t, u \in Threads :
       /\ Succeeded(t, "read")
       /\ Succeeded(u, "edit")
       /\ pre[t].mem = pre[u].mem
       /\ mem[res[t].id].access_count > pre[t].mem[res[t].id].access_count

\* the length of the longest path from n down to a leaf
RECURSIVE Height(_, _)
Height(m, n) ==
  IF m[n].children = <<>> THEN 0
  ELSE 1 + (CHOOSE h \in {Height(m, m[n].children[i]) : i \in 1..Len(m[n].children)} :
              \A i \in 1..Len(m[n].children) : Height(m, m[n].children[i]) <= h)

\* C12: for every tree, from_dict(to_dict(tree)) has the same nodes under the
\* same ids, in the same structure and child order, each with the same
\* description, content, tags, author, created_at, updated_at, access_count
\* and last_accessed.
C12_RoundTrip ==
  LET back == FromDict(ToDict(mem, RootId))
  IN  /\ DOMAIN back = Attached(mem)
      /\ \A n \in Attached(mem) :
           /\ back[n].children = mem[n].children
           /\ back[n].description = mem[n].description
           /\ back[n].content = mem[n].content
           /\ back[n].tags = mem[n].tags
           /\ back[n].author = mem[n].author
           /\ back[n].created_at = mem[n].created_at
           /\ back[n].updated_at = mem[n].updated_at
           /\ back[n].access_count = mem[n].access_count
           /\ back[n].last_accessed = mem[n].last_accessed

\* C12 witness: a tree of height three with a node of several children, with
\* nodes with and without updated_at, with and without content, and with a
\* node read more than once
C12_Witness ==
  /\ Height(mem, RootId) >= 3
  /\ \E n \in Attached(mem) : Len(mem[n].children) >= 2
  /\ \E n, k \in Attached(mem) :
       mem[n].updated_at # None /\ mem[k].updated_at = None
  /\ \E n, k \in Attached(mem) :
       mem[n].content # None /\ mem[k].content = None
  /\ \E n \in Attached(mem) : mem[n].access_count >= 2

\* the constructor has returned and no call has started yet
Constructed == budget = MaxLoadCalls /\ Quiescent

\* C13: a store constructed on a file that does not exist, is empty, or does
\* not parse or deserialise starts with a fresh root (description 'root',
\* author 'system', no children) and has overwritten the file with that root;
\* constructed on a file that holds a tree it has loaded that tree and left
\* the file as it was.
C13_InitNeverFails ==
  Constructed =>
    IF found \in BadFiles \cup {None}
    THEN /\ DOMAIN mem = {RootId}
         /\ mem[RootId].description = "root"
         /\ mem[RootId].author = "system"
         /\ mem[RootId].children = <<>>
         /\ file # None
         /\ file # found
         /\ file = Some(ToDict(mem, RootId))
    ELSE /\ file = found
         /\ ToDict(mem, RootId) = found[1]

\* C13 witness: the store was constructed on an empty file
C13_Witness ==
  /\ Constructed
  /\ found = Some([text |-> ""])
  /\ mem[RootId].children = <<>>

\* the calls of threads t and u started from the same tree: neither had
\* changed anything when the other began
StartedTogether(t, u) == t # u /\ pre[t].mem = pre[u].mem

\* C14: concurrent add_memory calls at the same parent with distinct
\* descriptions that no child has all succeed, and when all have returned the
\* parent has exactly one more child per call, one of each description, in the
\* tree and in the file, whatever the interleaving.
C14_ConcurrentAddsAllLand ==
  \A t, u \in Threads :
    (/\ Returned(t, "add") /\ Returned(u, "add")
     /\ StartedTogether(t, u)
     /\ call[t].position = call[u].position
     /\ call[t].description # call[u].description
     /\ Resolves(pre[t].mem, call[t].position)
     /\ KeyCount(pre[t].mem, Target(pre[t].mem, call[t].position),
                 call[t].description) = 0
     /\ KeyCount(pre[t].mem, Target(pre[t].mem, call[t].position),
                 call[u].description) = 0)
    => LET old == pre[t].mem
           parent == Target(old, call[t].position)
           before == old[parent].children
           after == mem[parent].children
           saved == FromDict(file[1])
       IN  /\ ~IsError(res[t]) /\ ~IsError(res[u])
           /\ res[t].id # res[u].id
           /\ Len(after) = Len(before) + 2
           /\ SubSeq(after, 1, Len(before)) = before
           /\ {after[Len(before) + 1], after[Len(before) + 2]}
                = {res[t].id, res[u].id}
           /\ mem[res[t].id].description = call[t].description
           /\ mem[res[u].id].description = call[u].description
           /\ KeyCount(mem, parent, call[t].description) = 1
           /\ KeyCount(mem, parent, call[u].description) = 1
           /\ saved[parent].children = after
           /\ saved[res[t].id].description = call[t].description
           /\ saved[res[u].id].description = call[u].description

\* C14 witness: two adds under the same parent that started together have
\* both returned, the one of the second thread landing first
C14_Witness ==
  \E t, u \in Threads :
    /\ Returned(t, "add") /\ Returned(u, "add")
    /\ StartedTogether(t, u)
    /\ call[t].position = call[u].position
    /\ call[t].description # call[u].description
    /\ ~IsError(res[t]) /\ ~IsError(res[u])
    /\ res[t].id > res[u].id
    /\ t < u

\* C15: a read_memory call holds the store lock from its path resolution to
\* its persist: while it is updating the access metadata of the node it
\* resolved, or has updated it and not yet persisted, it holds the lock (so no
\* step of another operation falls in between).
C15_ReadHoldsLock ==
  \A t \in Threads :
    pc[t] \in {"read_load", "read_store", "read_stamp"} => lock = Some(t)

\* C16: when two read_memory calls of the same existing node that ran
\* concurrently have both returned with success, the node's access_count, in
\* the tree and in the file, is its previous value plus two, and the two calls
\* returned different access_count values.
C16_ConcurrentReadsCount ==
  \A t, u \in Threads :
    (/\ Succeeded(t, "read") /\ Succeeded(u, "read")
     /\ StartedTogether(t, u)
     /\ call[t].position = call[u].position) =>
      LET old == pre[t].mem
          n == Target(old, call[t].position)
      IN  /\ mem[n].access_count = old[n].access_count + 2
          /\ FromDict(file[1])[n].access_count = old[n].access_count + 2
          /\ res[t].access_count # res[u].access_count

\* the statements inside the `with self.lock:` blocks of add_memory,
\* edit_memory and remove_memory, and of _save
LockedBodies ==
  {"add_body", "add_save", "edit_body", "edit_fields", "edit_save",
   "remove_body", "remove_save", "read_save"}

\* the statements that write the file
FileWrites == {"add_save", "edit_save", "remove_save", "read_save"}

\* the step writes the file, and a thread that holds the lock and is at a
\* statement that writes the file takes it
WriteUnderLock ==
  file' # file =>
    \E t \in Threads :
      /\ lock = Some(t)
      /\ pc[t] \in FileWrites
      /\ pc'[t] # pc[t]

\* C17: at any instant at most one thread is inside the body of add_memory,
\* edit_memory or remove_memory or inside a save, that thread holds the lock,
\* and every step that writes the file is taken by the thread holding the lock.
C17_MutualExclusion ==
  /\ [](/\ Cardinality({t \in Threads : pc[t] \in LockedBodies}) <= 1
        /\ \A t \in Threads : pc[t] \in LockedBodies <=> lock = Some(t))
  /\ [][WriteUnderLock]_vars

\* C17 witness: a thread is inside the body of edit_memory while the other
\* waits for the lock to remove
C17_Witness ==
  \E t, u \in Threads :
    /\ pc[t] = "edit_fields"
    /\ pc[u] = "remove_lock"
    /\ lock = Some(t)

\* thread t takes the step, of a list_children call
ListStep(t) ==
  /\ call[t].op = "list"
  /\ pc[t] \in {"list_nav", "list_iter"}
  /\ <<pc'[t], cur'[t], seg'[t], acc'[t]>> # <<pc[t], cur[t], seg[t], acc[t]>>

\* C18: no step of list_children, whether the call succeeds or returns an
\* error, changes an attribute of a node (access_count and last_accessed
\* included), the structure of the tree or the file.
C18_ListReadOnly ==
  [][(\E t \in Threads : ListStep(t)) => mem' = mem /\ file' = file]_vars

\* C18 witness: a list_children call has returned two entries of a node that
\* was read before
C18_Witness ==
  \E t \in Threads :
    /\ Succeeded(t, "list")
    /\ Len(res[t].children) >= 2
    /\ mem[Target(mem, call[t].position)].access_count > 0

\* in the step, the children every node keeps stay in their order and come
\* before the children it gains
ChildOrderKept ==
  \A n \in DOMAIN mem :
    LET old == mem[n].children
        new == mem'[n].children
        kept == SelectSeq(old, LAMBDA x : \E i \in 1..Len(new) : new[i] = x)
    IN  /\ Len(kept) <= Len(new)
        /\ SubSeq(new, 1, Len(kept)) = kept

\* C19: list_children on a path that resolves returns the given position and
\* one entry per direct child of the node, in the order of the node's
\* children, each with that child's description, content, tags and the number
\* of its direct children; and the order of a node's children is the order
\* they were added in: no step reorders the children a node keeps, and new
\* children come last.
C19_ListReturnsChildren ==
  /\ [](\A t \in SeqThreads :
          (Returned(t, "list") /\ Resolves(pre[t].mem, call[t].position)) =>
            LET ch == mem[Target(pre[t].mem, call[t].position)].children
            IN  /\ ~IsError(res[t])
                /\ res[t].position = call[t].position
                /\ Len(res[t].children) = Len(ch)
                /\ \A i \in 1..Len(ch) :
                     /\ res[t].children[i].description = mem[ch[i]].description
                     /\ res[t].children[i].content = mem[ch[i]].content
                     /\ res[t].children[i].tags = mem[ch[i]].tags
                     /\ res[t].children[i].children_count =
                          Len(mem[ch[i]].children))
  /\ [][ChildOrderKept]_vars

\* C19 witness: a list_children call has returned two entries, the first of a
\* child that has one child and a grandchild
C19_Witness ==
  \E t \in SeqThreads :
    /\ Succeeded(t, "list")
    /\ Len(res[t].children) = 2
    /\ res[t].children[1].children_count = 1
    /\ LET n == mem[Target(mem, call[t].position)].children[1]
       IN  Cardinality(Descendants(mem, n)) > 1

\* C20: every entry list_children returns has a has_children flag, true
\* exactly when the listed child has a child of its own.
C20_ListHasChildrenFlag ==
  \A t \in SeqThreads :
    (Returned(t, "list") /\ Resolves(pre[t].mem, call[t].position)) =>
      LET ch == mem[Target(pre[t].mem, call[t].position)].children
      IN  /\ ~IsError(res[t])
          /\ Len(res[t].children) = Len(ch)
          /\ \A i \in 1..Len(ch) :
               /\ "has_children" \in DOMAIN res[t].children[i]
               /\ res[t].children[i].has_children = (mem[ch[i]].children # <<>>)

\* the first child of n whose description is d: no child before it has d
FirstNamed(m, n, d) ==
  LET ch == m[n].children
  IN  IF \E i \in 1..Len(ch) : m[ch[i]].description = d
      THEN Some(ch[CHOOSE i \in 1..Len(ch) :
                     /\ m[ch[i]].description = d
                     /\ \A j \in 1..(i - 1) : m[ch[j]].description # d])
      ELSE None

\* the node reached from the root along p, taking first children: the node
\* reached along all but the last segment, then its first child of that name
RECURSIVE Reached(_, _)
Reached(m, p) ==
  IF p = <<>> THEN Some(RootId)
  ELSE LET before == Reached(m, SubSeq(p, 1, Len(p) - 1))
       IN  IF before = None THEN None
           ELSE FirstNamed(m, before[1], p[Len(p)])

\* the first segment of p that has no matching child (Len(p) + 1 when all have)
FirstMiss(m, p) ==
  CHOOSE k \in 1..(Len(p) + 1) :
    /\ Reached(m, SubSeq(p, 1, k - 1)) # None
    /\ k <= Len(p) => Reached(m, SubSeq(p, 1, k)) = None

\* thread t takes a step of the navigation of read_memory or list_children
NavigationStep(t) ==
  /\ pc[t] \in {"read_nav", "list_nav"}
  /\ <<pc'[t], cur'[t], seg'[t]>> # <<pc[t], cur[t], seg[t]>>

\* a navigation step changes nothing in the tree or the file, and the one
\* that gives up does so at the first segment without a match
NavigationStepRight ==
  \A t \in SeqThreads :
    NavigationStep(t) =>
      /\ mem' = mem
      /\ file' = file
      /\ pc'[t] = "done" =>
           /\ IsError(res'[t])
           /\ seg[t] = FirstMiss(mem, call[t].position)
           /\ seg[t] <= Len(call[t].position)

\* C21: navigation of the empty path gives the root; of a non-empty path, the
\* node reached by taking at each segment the first child of that
\* description; it gives not-found at the first segment without a matching
\* child, looking at no later segment, and it never changes the tree.
C21_Navigation ==
  /\ [](/\ Navigate(mem, <<>>) = Some(RootId)
        /\ \A p \in Positions : Navigate(mem, p) = Reached(mem, p)
        /\ \A t \in SeqThreads :
             (pc[t] \in {"read_load", "list_iter"} /\ seg[t] = 1) =>
               cur[t] = Reached(mem, call[t].position))
  /\ [][NavigationStepRight]_vars

\* C21 witness: a read of a path of two segments has returned not-found, the
\* root having a child of the second description and none of the first
C21_Witness ==
  \E t \in SeqThreads :
    /\ Returned(t, "read")
    /\ IsError(res[t])
    /\ Len(call[t].position) = 2
    /\ KeyCount(mem, RootId, call[t].position[1]) = 0
    /\ KeyCount(mem, RootId, call[t].position[2]) = 1

\* the statements at which a thread waits for the lock
LockWaits == {"add_lock", "edit_lock", "remove_lock", "read_lock"}

\* C22: no thread asks for the lock while it holds it, a thread that has
\* returned from a call (with a result or with an error) does not hold the
\* lock, and under fair scheduling of the threads every call that was started
\* returns.
C22_EveryCallReturns ==
  /\ [](\A t \in Threads :
          /\ pc[t] \in LockWaits => lock # Some(t)
          /\ pc[t] \in {"idle", "done"} => lock # Some(t))
  /\ \A t \in Threads : (pc[t] \notin {"idle", "done"}) ~> (pc[t] = "done")

\* C22 witness: an edit has returned an error from inside its locked body
\* while the other thread waits for the lock
C22_Witness ==
  \E t, u \in Threads :
    /\ Returned(t, "edit")
    /\ IsError(res[t])
    /\ res[t].error = "Cannot edit root memory"
    /\ pc[u] \in LockWaits
    /\ lock = None

\* after the step, the read of thread u is half done on a node of the tree:
\* it has stored the incremented access_count and not yet the new
\* last_accessed
HalfRead(u) ==
  /\ pc'[u] = "read_stamp"
  /\ cur'[u][1] \in Attached(mem')
  /\ tnow'[u] # mem'[cur'[u][1]].last_accessed

\* C23: every content written to the file is the serialization of a tree
\* state between complete operations: no step writes the file while a read is
\* half done on a node of the written tree (its access_count incremented, its
\* last_accessed still the one from before).
C23_WritesBetweenOperations ==
  [][file' # file => ~(\E u \in Threads : HalfRead(u))]_vars

\* C24: right after a successful add_memory, and until the node is first
\* read, the last_accessed of the new node equals its created_at.
C24_LastAccessedIsCreation ==
  /\ \A t \in SeqThreads :
       Succeeded(t, "add") =>
         mem[res[t].id].last_accessed = mem[res[t].id].created_at
  /\ \A n \in DOMAIN mem \ {RootId} :
       mem[n].access_count = 0 => mem[n].last_accessed = mem[n].created_at

\* in the step, updated_at changes only on the node of a succeeding edit,
\* which sets it, and an object that comes into being has none
UpdatedAtOnlyByEdit ==
  \A n \in DOMAIN mem' :
    IF n \in DOMAIN mem
    THEN mem'[n].updated_at # mem[n].updated_at =>
           /\ mem'[n].updated_at # None
           /\ \E t \in Threads :
                /\ call[t].op = "edit"
                /\ cur[t] = Some(n)
                /\ pc'[t] = "done"
                /\ ~IsError(res'[t])
                /\ res'[t].id = n
    ELSE mem'[n].updated_at = None

\* C25: updated_at is absent exactly on the nodes no edit_memory call has
\* succeeded on: a new node has none, only a succeeding edit of the node
\* changes it, setting it; the root, which cannot be edited, never has one; a
\* node whose edit has succeeded has one; and the file, once the calls have
\* returned, holds it for a reload as it is in the tree.
C25_UpdatedAtIffEdited ==
  /\ [](/\ mem[RootId].updated_at = None
        /\ \A t \in Threads :
             Succeeded(t, "edit") => mem[res[t].id].updated_at # None
        /\ Quiescent =>
             \A n \in Attached(mem) :
               FromDict(file[1])[n].updated_at = mem[n].updated_at)
  /\ [][UpdatedAtOnlyByEdit]_vars

\* C25 witness: an edit has set updated_at on a node that had none, and a
\* read of another node, which still has none, has returned
C25_Witness ==
  /\ Quiescent
  /\ \E t, u \in Threads :
       /\ Succeeded(t, "edit")
       /\ Succeeded(u, "read")
       /\ pre[t].mem[res[t].id].updated_at = None
       /\ mem[res[t].id].updated_at # None
       /\ mem[res[u].id].updated_at = None
       /\ mem[res[u].id].access_count > 0

\* the edit of thread t went through and gave its node another description
Renamed(t) ==
  /\ EditDone(t)
  /\ call[t].description # None
  /\ call[t].description[1] #
       pre[t].mem[Target(pre[t].mem, call[t].position)].description

\* C26: after a successful edit_memory that gives a node a description other
\* than its old one, the same node, with the same children and in the same
\* place among its siblings, resolves at parent path + [new description]; the
\* old path no longer resolves; and each descendant of the node is reached
\* through the new path and not through the old.
C26_RenameMovesPath ==
  \A t \in SeqThreads :
    Renamed(t) =>
      LET old == pre[t].mem
          p == call[t].position
          n == Target(old, p)
          q == ParentPosition(p) \o <<call[t].description[1]>>
          parent == Target(old, ParentPosition(p))
      IN  /\ res[t].id = n
          /\ Targets(mem, RootId, q) = {n}
          /\ Targets(mem, RootId, p) = {}
          /\ mem[n].children = old[n].children
          /\ mem[parent].children = old[parent].children
          /\ Descendants(mem, n) = Descendants(old, n)
          /\ \A k \in Descendants(old, n) : mem[k] = old[k]
          /\ \A i \in 1..Len(old[n].children) :
               LET d == old[old[n].children[i]].description
               IN  /\ Targets(mem, RootId, q \o <<d>>) = {old[n].children[i]}
                   /\ Targets(mem, RootId, p \o <<d>>) = {}
                   /\ \A j \in 1..Len(old[old[n].children[i]].children) :
                        LET g == old[old[n].children[i]].children[j]
                        IN  /\ Targets(mem, RootId,
                                       q \o <<d, old[g].description>>) = {g}
                            /\ Targets(mem, RootId,
                                       p \o <<d, old[g].description>>) = {}

\* C26 witness: a node with a child and a grandchild, the first of two
\* siblings, has been given another description
C26_Witness ==
  \E t \in SeqThreads :
    /\ Renamed(t)
    /\ LET n == res[t].id
       IN  /\ Cardinality(Descendants(mem, n)) >= 2
           /\ Len(mem[RootId].children) >= 2
           /\ mem[RootId].children[1] = n

\* C27: when add_memory calls with the same description and the same parent
\* path, which resolves and has no child of that description, run
\* concurrently, exactly one returns success and the other an 'already
\* exists' error, whatever the interleaving, and the parent ends with exactly
\* one child of that description.
C27_ConcurrentDuplicateAdds ==
  \A t, u \in Threads :
    (/\ Returned(t, "add") /\ Returned(u, "add")
     /\ StartedTogether(t, u)
     /\ call[t].position = call[u].position
     /\ call[t].description = call[u].description
     /\ Resolves(pre[t].mem, call[t].position)
     /\ KeyCount(pre[t].mem, Target(pre[t].mem, call[t].position),
                 call[t].description) = 0)
    => LET old == pre[t].mem
           parent == Target(old, call[t].position)
       IN  /\ IsError(res[t]) # IsError(res[u])
           /\ IsError(res[t]) => res[t].error = "already exists at this position"
           /\ IsError(res[u]) => res[u].error = "already exists at this position"
           /\ KeyCount(mem, parent, call[t].description) = 1
           /\ Len(mem[parent].children) = Len(old[parent].children) + 1
           /\ KeyCount(FromDict(file[1]), parent, call[t].description) = 1

\* C27 witness: of two adds of the same description under a node below the
\* root that started together, the one of the second thread has succeeded and
\* the one of the first has been refused
C27_Witness ==
  \E t, u \in Threads :
    /\ t < u
    /\ Returned(t, "add") /\ Returned(u, "add")
    /\ StartedTogether(t, u)
    /\ call[t].position = call[u].position
    /\ call[t].position # <<>>
    /\ call[t].description = call[u].description
    /\ IsError(res[t])
    /\ ~IsError(res[u])

\* what list_children has to return for node n of tree m
Listing(m, n) ==
  [i \in 1..Len(m[n].children) |->
     [children_count |-> Len(m[m[n].children[i]].children),
      content |-> m[m[n].children[i]].content,
      description |-> m[m[n].children[i]].description,
      tags |-> m[m[n].children[i]].tags]]

\* the call of thread u changes the tree in one step, or not at all: the tree
\* is then, at every instant of a call of another thread, the tree at that
\* call's start or the tree now
OneStepChange(u) == call[u].op \in {"none", "add", "remove", "list"}

\* C28: a successful list_children that ran while another caller added or
\* removed a node returns the children of one node as they were at one
\* instant of the call: the listing of that node in the tree at the call's
\* start or in the tree after the other caller's change, with no child
\* skipped or listed twice.
C28_ListIsSnapshot ==
  \A t, u \in Threads :
    (t # u /\ Succeeded(t, "list") /\ OneStepChange(u)) =>
      \E n \in DOMAIN pre[t].mem :
        \/ res[t].children = Listing(pre[t].mem, n)
        \/ res[t].children = Listing(mem, n)

\* the ids of the nodes a file content holds
FileIds(f) == {x.id : x \in DictNodes(f[1])}

\* in the step: a remove that returns success leaves its node and the
\* descendants of the node outside the tree; a node outside the tree never
\* comes back into it; and a content written to the file holds nodes of the
\* tree only
DetachedStaysOut ==
  /\ \A t \in Threads :
       (pc[t] = "remove_save" /\ pc'[t] = "done") =>
         /\ ~IsError(res'[t])
         /\ ({cur[t][1]} \cup Descendants(mem', cur[t][1])) \cap Attached(mem') = {}
         /\ FileIds(file') = Attached(mem')
  /\ \A n \in DOMAIN mem : n \notin Attached(mem) => n \notin Attached(mem')
  /\ \A n \in DOMAIN mem \ Attached(mem) :
       \A k \in Descendants(mem', n) : k \notin Attached(mem')
  /\ file' # file => FileIds(file') \subseteq Attached(mem')

\* C29: once remove_memory has returned success, the removed node and its
\* descendants are outside the tree for good, and every content written to
\* the file afterwards, also by a read_memory that resolved the node before it
\* was detached, holds nodes of the tree only, so none of them.
C29_RemovedNeverPersisted ==
  [][DetachedStaysOut]_vars

\* C29 witness: a read that resolved a node before a remove detached it has
\* persisted and returned after the remove returned, and the file holds the
\* tree without the node
C29_Witness ==
  \E t, u \in Threads :
    /\ Succeeded(u, "remove")
    /\ Succeeded(t, "read")
    /\ res[t].id \notin Attached(mem)
    /\ res[t].id \notin FileIds(file)
    /\ mem[res[t].id].access_count > pre[t].mem[res[t].id].access_count

\* in the step, no node's last_accessed moves to an earlier value
LastAccessedKept ==
  \A n \in DOMAIN mem : mem'[n].last_accessed >= mem[n].last_accessed

\* C30: with a clock that never goes backwards, the last_accessed of a node
\* never decreases, in every interleaving of concurrent read_memory calls on
\* the node, and it is never earlier than the created_at of the node.
C30_LastAccessedMonotone ==
  [][/\ LastAccessedKept
     /\ \A n \in DOMAIN mem' : mem'[n].last_accessed >= mem'[n].created_at]_vars

====
